---- MODULE Spec2Model ----
(***************************************************************************)
(* The autonomous optimization engine of the video A/B testing server:     *)
(* evaluateTestPerformance (server/routes.ts) over the storage layer        *)
(* (server/storage.ts).                                                     *)
(*                                                                          *)
(* Numbers.  The engine computes conversion rates, the average, the         *)
(* underperformance and the uplift in IEEE doubles.  The model keeps every  *)
(* such quantity as an exact fraction of integers and decides each          *)
(* comparison by cross-multiplication.  On the analytics and thresholds     *)
(* enumerated here every comparison of the double computation has the same  *)
(* outcome as the exact one.                                                *)
(***************************************************************************)
EXTENDS Integers, Sequences, FiniteSets, TLC

\* ---------------------------------------------------------------- bounds
\* Largest cumulative views counter of an analytics snapshot.
MaxViews == 4
\* The views counters enumerated: no view yet, or MaxViews.
ViewLevels == {0, MaxViews}

\* The variants of the test, numbered in creation order (serial ids): 1 is
\* the first variant created, the control.
VariantIds == {1, 2, 3}
\* The one test in the store, and the ids a caller may pass to evaluate.
TestIds == {1}
RequestIds == {1, 2}
\* The evaluations that may be in flight.
Procs == {1, 2}

\* Configurations of the test (schema.ts: integer minSampleSize, real
\* thresholds in percent).
MinSampleSizes == {0, MaxViews}
KillSwitchThresholds == {30, 50}
AutoWinThresholds == {50, 400}

\* Largest number of activity-log entries at which a request that may append
\* entries is still accepted (the table itself is unbounded).
MaxLog == 3
\* Bodies of PATCH /api/tests/:id/automation: the fields present in the body.
AutomationBodies ==
  { [autonomousOptimization |-> TRUE],
    [autonomousOptimization |-> FALSE],
    [killSwitchThreshold |-> 50],
    [autonomousOptimization |-> TRUE, killSwitchThreshold |-> 30] }
\* winnerVariantId of a POST apply-winner body: absent (0), or a variant id.
WinnerBodies == {0} \cup VariantIds

\* The analytics table row by row: at most MaxPoints rows, of the variants
\* that have analytics, with timestamps in days around the bucket and window
\* boundaries, and the clock readings of a getAnalytics call.
MaxPoints == 3
PointVariants == {1, 2}
Timestamps == {6, 7, 13, 14}
Clocks == {37, 43}
PointCounters == {[views |-> 1, conversions |-> 0], [views |-> 2, conversions |-> 1]}

\* Arguments of calculateStatisticalSignificance on its own: every tuple of
\* small counters (conversions may exceed views: nothing in the function or in
\* ingestion checks them against each other), and the cases of the
\* specification's examples and of the rounding of the returned fields.
MaxSigViews == 4
SigCases ==
  { <<30, 1000, 90, 1000>>, <<30, 1000, 48, 1000>>, <<48, 1000, 30, 1000>>,
    <<0, 0, 5, 10>>, <<0, 100, 0, 100>>, <<100, 100, 100, 100>>,
    <<0, 2, 39, 58>>, <<39, 58, 0, 2>>, <<0, 3, 29, 50>>,
    <<0, 2, 14, 20>>, <<14, 20, 0, 2>>, <<0, 1, 30, 37>> }
SigInputs ==
  {<<c1, v1, c2, v2>> : c1 \in 0..(MaxSigViews + 1), v1 \in 0..MaxSigViews,
                        c2 \in 0..(MaxSigViews + 1), v2 \in 0..MaxSigViews}
  \cup SigCases

VARIABLES
  tests,        \* tests table: id -> row
  variants,     \* variants table: variant id -> row (all of test 1)
  analytics,    \* latest cumulative snapshot per variant in the '1m' window
  activityLog,  \* ai_activity_log table, in insertion order
  pc,           \* per evaluation: where evaluateTestPerformance stands
  local,        \* per evaluation: its local constants (test, variantPerformance, pending writes)
  entry,        \* per evaluation: the stored state when it was called (history)
  prevPass,     \* what the last returned evaluation did, "none" after new analytics (history)
  significance, \* a call of calculateStatisticalSignificance on its own: arguments and result
  http,         \* per request: where its route handler stands, and its answer
  changing,     \* how many evaluations so far changed a stored row (history)
  analyticsTable \* analytics table: its rows, and the last getAnalytics call on it

vars == <<tests, variants, analytics, activityLog, pc, local, entry, prevPass, significance,
          http, changing, analyticsTable>>

\* ------------------------------------------------------------- sequences
Range(s) == {s[i] : i \in DOMAIN s}

\* Every order in which the rows of a set can be returned.
RowOrders(S) ==
  {s \in [1..Cardinality(S) -> S] : \A i, j \in 1..Cardinality(S) : s[i] = s[j] => i = j}

\* Rows in creation order (ascending serial id).
RECURSIVE CreationOrder(_)
CreationOrder(S) ==
  IF S = {} THEN <<>>
  ELSE LET m == CHOOSE x \in S : \A y \in S : x <= y
       IN <<m>> \o CreationOrder(S \ {m})

\* ------------------------------------------------------------- fractions
\* A double quantity of the engine, kept exactly: n / d with d > 0.
Frac(n, d) == [n |-> n, d |-> d]
FracAdd(a, b) == Frac(a.n * b.d + b.n * a.d, a.d * b.d)
FracGT(a, b) == a.n * b.d > b.n * a.d
\* f >= k and f <= 0.001, for an integer k.
FracGE(f, k) == f.n >= k * f.d
Negligible(f) == f.n * 1000 <= f.d

\* ----------------------------------------------------- double arithmetic
\* The significance test goes through Math.sqrt, Math.exp and a polynomial,
\* which no fraction follows.  Its doubles are kept in fixed point: an integer
\* k stands for k / FxOne.  Products are formed from half-words so that no
\* intermediate value leaves 32 bits.
FxSplit == 100 * 100
FxOne == FxSplit * FxSplit

Abs(x) == IF x < 0 THEN -x ELSE x
Min(a, b) == IF a < b THEN a ELSE b
Max(a, b) == IF a > b THEN a ELSE b

\* a * b of two non-negative numbers, rounded to the nearest unit.
FxMulAbs(a, b) ==
  LET ah  == a \div FxSplit
      al  == a % FxSplit
      bh  == b \div FxSplit
      bl  == b % FxSplit
      mid == ah * bl + al * bh
  IN ah * bh + (mid \div FxSplit)
     + (((mid % FxSplit) * FxSplit + al * bl + (FxOne \div 2)) \div FxOne)

FxMul(a, b) ==
  IF (a >= 0) = (b >= 0) THEN FxMulAbs(Abs(a), Abs(b)) ELSE -FxMulAbs(Abs(a), Abs(b))

\* 1.0 / b for 1 <= b < 2.5 (Newton's iteration from 0.5).
NewtonSteps == 7
RECURSIVE FxRecipFrom(_, _, _)
FxRecipFrom(t, b, steps) ==
  IF steps = 0 THEN t
  ELSE FxRecipFrom(FxMul(t, 2 * FxOne - FxMul(b, t)), b, steps - 1)
FxRecip(b) == FxRecipFrom(FxOne \div 2, b, NewtonSteps)

\* Math.sqrt(X): the largest m with m * m <= X, by bisection; the comparison
\* is exact.
FxSquareLE(m, X) ==
  LET mh    == m \div FxSplit
      ml    == m % FxSplit
      cross == 2 * mh * ml
      low   == (cross % FxSplit) * FxSplit + ml * ml
      high  == mh * mh + (cross \div FxSplit) + (low \div FxOne)
  IN high < X \/ (high = X /\ low % FxOne = 0)

RECURSIVE FxSqrtBetween(_, _, _)
FxSqrtBetween(lo, hi, X) ==
  IF hi - lo <= 1 THEN lo
  ELSE LET m == (lo + hi) \div 2
       IN IF FxSquareLE(m, X) THEN FxSqrtBetween(m, hi, X) ELSE FxSqrtBetween(lo, m, X)

\* Largest argument of Math.exp(-X) the model follows: beyond it the value
\* is below one unit of FxOne.
ExpRange == 19
FxSqrt(X) == FxSqrtBetween(0, 44 * (FxOne \div 10), X)

\* Math.exp(-X) for 0 <= X < ExpRange: exp(-1) to the power of the integer
\* part, times the Taylor series of exp(-f) for the fraction f.
ExpMinusOne == 36787944
SeriesTerms == 13
RECURSIVE ExpSeries(_, _, _)
ExpSeries(term, n, f) ==
  IF n > SeriesTerms THEN 0
  ELSE LET next == FxMul(term, f) \div n
       IN (IF n % 2 = 1 THEN -next ELSE next) + ExpSeries(next, n + 1, f)

RECURSIVE FxTimesPower(_, _, _)
FxTimesPower(x, b, k) == IF k = 0 THEN x ELSE FxTimesPower(FxMul(x, b), b, k - 1)

FxExpNeg(X) ==
  FxTimesPower(FxOne + ExpSeries(FxOne, 1, X % FxOne), ExpMinusOne, X \div FxOne)

\* Fractions in lowest terms, multiplied with cross-cancellation.
RECURSIVE GCD(_, _)
GCD(a, b) == IF b = 0 THEN a ELSE GCD(b, a % b)
Reduce(n, d) == Frac(n \div GCD(n, d), d \div GCD(n, d))
FracMul(a, b) ==
  LET g1 == GCD(a.n, b.d)
      g2 == GCD(b.n, a.d)
  IN Frac((a.n \div g1) * (b.n \div g2), (a.d \div g2) * (b.d \div g1))

\* The fraction f as a fixed-point number, by long division.
RECURSIVE FxDigits(_, _, _, _)
FxDigits(x, r, d, digits) ==
  IF digits = 0 THEN x
  ELSE FxDigits(x * 10 + ((r * 10) \div d), (r * 10) % d, d, digits - 1)
ToFx(f) == FxDigits(f.n \div f.d, f.n % f.d, f.d, 8)

\* Number.prototype.toFixed followed by parseFloat: x in multiples of `unit`,
\* rounded half up.
toFixed(x, unit) == (x + (unit \div 2)) \div unit

\* NaN, as a value no number of the model takes.  Every comparison with NaN
\* is false.
NaN == -1
IsNaN(x) == x = NaN
LessThan(a, b) == ~IsNaN(a) /\ ~IsNaN(b) /\ a < b
GreaterThan(a, b) == ~IsNaN(a) /\ ~IsNaN(b) /\ a > b

\* --------------------------------------- calculateStatisticalSignificance
\* z * z of the two-proportion test, as a fraction in lowest terms:
\*   z = |p1 - p2| / sqrt(pPooled * (1 - pPooled) * (1/views1 + 1/views2)),
\* for 0 < conversions1 + conversions2 < views1 + views2.
ZSquared(conversions1, views1, conversions2, views2) ==
  LET diff == Abs(conversions1 * views2 - conversions2 * views1)
      c    == conversions1 + conversions2
      v    == views1 + views2
  IN FracMul(FracMul(Reduce(diff, views1), Reduce(diff, views2)),
             FracMul(Reduce(v, c), Reduce(1, v - c)))

\* The coefficients of normalCDF, in units of 1 / FxOne.
a1 == 25482959
a2 == -28449674
a3 == 142141374
a4 == -145315203
a5 == 106140543
p0 == 32759110

\* normalCDF(z) for z >= 0, given X = (z / sqrt 2) squared.
normalCDF(X) ==
  LET x    == FxSqrt(X)
      t    == FxRecip(FxOne + FxMul(p0, x))
      poly == FxMul(FxMul(FxMul(FxMul(FxMul(a5, t) + a4, t) + a3, t) + a2, t) + a1, t)
      y    == FxOne - FxMul(poly, FxExpNeg(X))
  IN (FxOne + y) \div 2

\* pValue = 2 * (1 - normalCDF(z)), in units of 1 / FxOne.
pValueOf(z2) ==
  IF FracGE(z2, 2 * ExpRange) THEN 0
  ELSE 2 * (FxOne - normalCDF(ToFx(Reduce(z2.n, 2 * z2.d))))

\* The values toFixed leaves: confidence in tenths of a percent, pValue in
\* ten-thousandths.
ConfidenceUnit == 100000
PValueUnit == FxSplit
MaxConfidence == 99900000
\* Thresholds other than 0.05 for the significant flag.
AlphaOnePercent == FxOne \div 100
AlphaTenPercent == FxOne \div 10

Alpha == 5000000
\* The guards' result with the p-value of a certain difference.
DegenerateZeroPValue == [significant |-> FALSE, confidence |-> 0, pValue |-> 0]

Degenerate == [significant |-> FALSE, confidence |-> 0, pValue |-> FxOne \div PValueUnit]

\* The same with z = (p1 - p2) / se, the absolute value left out: for p1 < p2
\* normalCDF takes its negative branch and the p-value is 2 - pValue(|z|).
calculateStatisticalSignificanceSigned(conversions1, views1, conversions2, views2) ==
  LET c == conversions1 + conversions2
      v == views1 + views2
  IN IF views1 = 0 \/ views2 = 0 THEN Degenerate
     ELSE IF c = 0 \/ c = v THEN Degenerate
     ELSE IF c > v THEN [significant |-> FALSE, confidence |-> NaN, pValue |-> NaN]
     ELSE LET twoTailed  == pValueOf(ZSquared(conversions1, views1, conversions2, views2))
              pValue     == IF conversions1 * views2 < conversions2 * views1
                              THEN 2 * FxOne - twoTailed
                              ELSE twoTailed
              confidence == Min(MaxConfidence, Max(0, FxOne - pValue))
          IN [significant |-> pValue < Alpha,
              confidence  |-> toFixed(confidence, ConfidenceUnit),
              pValue      |-> toFixed(pValue, PValueUnit)]

calculateStatisticalSignificance(conversions1, views1, conversions2, views2) ==
  LET c == conversions1 + conversions2
      v == views1 + views2
  IN IF views1 = 0 \/ views2 = 0 THEN Degenerate
     \* se === 0: the pooled rate is exactly 0 or exactly 1
     ELSE IF c = 0 \/ c = v THEN Degenerate
     \* pooled rate above 1: Math.sqrt of a negative number, so se, z, pValue
     \* and confidence are NaN, and NaN < 0.05 is false
     ELSE IF c > v THEN [significant |-> FALSE, confidence |-> NaN, pValue |-> NaN]
     ELSE LET pValue     == pValueOf(ZSquared(conversions1, views1, conversions2, views2))
              confidence == Min(MaxConfidence, Max(0, FxOne - pValue))
          IN [significant |-> pValue < Alpha,
              confidence  |-> toFixed(confidence, ConfidenceUnit),
              pValue      |-> toFixed(pValue, PValueUnit)]

\* ------------------------------------------------- evaluateTestPerformance
\* storage.getTest: the test row with its variant rows.  The variants query
\* has no ORDER BY, so `order` is the order the database returned them in.
getTest(id, order) ==
  [test |-> tests[id], variants |-> [i \in DOMAIN order |-> variants[order[i]]]]

\* test.variants.map(...): one VariantPerformance per variant row, in row order.
variantPerformance(rows, points) ==
  [i \in DOMAIN rows |->
     [variantId   |-> rows[i].id,
      views       |-> points[rows[i].id].views,
      conversions |-> points[rows[i].id].conversions,
      status      |-> rows[i].variantStatus]]

conversionRate(v) ==
  IF v.views > 0 THEN Frac(v.conversions * 100, v.views) ELSE Frac(0, 1)

IsActive(v) == v.status = "active"
\* Seeded fault: the filter on status === 'active' is dropped.
activeVariantsUnfiltered(perf) == perf
\* variantPerformance.filter(v => v.status === 'active')
activeVariants(perf) == SelectSeq(perf, IsActive)

\* Seeded fault: the test's status is not looked at.
SkipTestIgnoresStatus(test) == ~test.autonomousOptimization

\* if (!test.autonomousOptimization || test.status !== 'running') return;
SkipTest(test) == ~test.autonomousOptimization \/ test.status # "running"

\* Seeded fault: some() where the engine uses every().
hasMinSampleSome(active, minSampleSize) ==
  \E i \in DOMAIN active : active[i].views >= minSampleSize

\* activeVariants.every(v => v.views >= test.minSampleSize)
hasMinSample(active, minSampleSize) ==
  \A i \in DOMAIN active : active[i].views >= minSampleSize

RECURSIVE totalRate(_)
totalRate(active) ==
  IF active = <<>> THEN Frac(0, 1)
  ELSE FracAdd(totalRate(SubSeq(active, 1, Len(active) - 1)),
               conversionRate(active[Len(active)]))

avgConversionRate(active) ==
  LET t == totalRate(active) IN Frac(t.n, t.d * Len(active))

\* activeVariants.reduce((best, curr) => curr.rate > best.rate ? curr : best)
RECURSIVE bestPerformer(_)
bestPerformer(active) ==
  IF Len(active) = 1 THEN active[1]
  ELSE LET best == bestPerformer(SubSeq(active, 1, Len(active) - 1))
           curr == active[Len(active)]
       IN IF FracGT(conversionRate(curr), conversionRate(best)) THEN curr ELSE best

\* Seeded fault: the sign is inverted, ((rate - avg) / avg) * 100.
underperformancePercentInverted(avg, rate) ==
  Frac((rate.n * avg.d - avg.n * rate.d) * 100, avg.n * rate.d)

\* ((avg - rate) / avg) * 100, for avg > 0
underperformancePercent(avg, rate) ==
  Frac((avg.n * rate.d - rate.n * avg.d) * 100, avg.n * rate.d)

\* ((best - control) / control) * 100, for control > 0
upliftPercent(best, control) ==
  Frac((best.n * control.d - control.n * best.d) * 100, control.n * best.d)

\* The storage calls of one evaluation.
Write(op, variantId, value) == [op |-> op, variantId |-> variantId, value |-> value]

\* Seeded fault: the 'disabled_variant' entry is written before the status.
RECURSIVE killSwitchLogsFirst(_, _, _, _)
killSwitchLogsFirst(active, control, avg, threshold) ==
  IF active = <<>> THEN <<>>
  ELSE LET variant == Head(active)
           rest    == killSwitchLogsFirst(Tail(active), control, avg, threshold)
       IN IF variant.variantId = control.variantId THEN rest
          ELSE IF FracGE(underperformancePercent(avg, conversionRate(variant)), threshold)
               THEN << Write("createActivityLogEntry", variant.variantId, "disabled_variant"),
                       Write("updateVariantStatus", variant.variantId, "disabled") >>
                    \o rest
               ELSE rest

\* ACTION A: the kill-switch writes, for the active variants in row order.
RECURSIVE killSwitch(_, _, _, _)
killSwitch(active, control, avg, threshold) ==
  IF active = <<>> THEN <<>>
  ELSE LET variant == Head(active)
           rest    == killSwitch(Tail(active), control, avg, threshold)
       IN IF variant.variantId = control.variantId THEN rest
          ELSE IF FracGE(underperformancePercent(avg, conversionRate(variant)), threshold)
               THEN << Write("updateVariantStatus", variant.variantId, "disabled"),
                       Write("createActivityLogEntry", variant.variantId, "disabled_variant") >>
                    \o rest
               ELSE rest

\* ACTION B: the auto-win writes.
autoWin(control, best, threshold) ==
  IF control.variantId # best.variantId
     /\ FracGE(upliftPercent(conversionRate(best), conversionRate(control)), threshold)
     /\ calculateStatisticalSignificance(control.conversions, control.views,
                                         best.conversions, best.views).significant
  THEN << Write("updateVariantStatus", best.variantId, "winner"),
          Write("updateTestWinner", best.variantId, "winner_applied"),
          Write("createActivityLogEntry", best.variantId, "promoted_winner") >>
  ELSE <<>>

\* Seeded fault: the evaluation returns after a kill-switch pass that
\* disabled a variant, without reaching the auto-win rule.
DecideStopsAfterKillSwitch(test, perf) ==
  LET active  == activeVariants(perf)
      avg     == avgConversionRate(active)
      control == perf[1]
      killed  == killSwitch(active, control, avg, test.killSwitchThreshold)
  IN IF Len(active) < 2 THEN [outcome |-> "fewActive", writes |-> <<>>]
     ELSE IF ~hasMinSample(active, test.minSampleSize)
       THEN [outcome |-> "noMinSample", writes |-> <<>>]
     ELSE IF Negligible(avg) THEN [outcome |-> "avgNegligible", writes |-> <<>>]
     ELSE IF Negligible(conversionRate(control))
       THEN [outcome |-> "controlNegligible", writes |-> <<>>]
     ELSE [outcome |-> "act",
           writes  |-> IF killed # <<>> THEN killed
                       ELSE autoWin(control, bestPerformer(active), test.autoWinThreshold)]

\* Seeded fault: the average is taken over the challengers only, leaving the
\* control (variantPerformance[0]) out.
DecideAverageWithoutControl(test, perf) ==
  LET active  == activeVariants(perf)
      control == perf[1]
      IsChallenger(v) == v.variantId # control.variantId
      avg     == avgConversionRate(SelectSeq(active, IsChallenger))
  IN IF Len(active) < 2 THEN [outcome |-> "fewActive", writes |-> <<>>]
     ELSE IF ~hasMinSample(active, test.minSampleSize)
       THEN [outcome |-> "noMinSample", writes |-> <<>>]
     ELSE IF Negligible(avg) THEN [outcome |-> "avgNegligible", writes |-> <<>>]
     ELSE IF Negligible(conversionRate(control))
       THEN [outcome |-> "controlNegligible", writes |-> <<>>]
     ELSE [outcome |-> "act",
           writes  |-> killSwitch(active, control, avg, test.killSwitchThreshold)
                       \o autoWin(control, bestPerformer(active), test.autoWinThreshold)]

\* Lines 101-197 after both reads: why the evaluation returns early, or "act"
\* with the storage calls it goes on to issue, in order.
Decide(test, perf) ==
  LET active  == activeVariants(perf)
      avg     == avgConversionRate(active)
      control == perf[1]
  IN IF Len(active) < 2 THEN [outcome |-> "fewActive", writes |-> <<>>]
     ELSE IF ~hasMinSample(active, test.minSampleSize)
       THEN [outcome |-> "noMinSample", writes |-> <<>>]
     ELSE IF Negligible(avg) THEN [outcome |-> "avgNegligible", writes |-> <<>>]
     ELSE IF Negligible(conversionRate(control))
       THEN [outcome |-> "controlNegligible", writes |-> <<>>]
     ELSE [outcome |-> "act",
           writes  |-> killSwitch(active, control, avg, test.killSwitchThreshold)
                       \o autoWin(control, bestPerformer(active), test.autoWinThreshold)]

\* ------------------------------------------------------------------ state
NoTest == [id |-> 0]
NoLocal == [testId |-> 0, test |-> NoTest, perf |-> <<>>, outcome |-> "", writes |-> <<>>]
NoEntry == [tests |-> <<>>, variants |-> <<>>, activityLog |-> <<>>]
NoCall == [args |-> <<>>, result |-> <<>>]
\* The analytics table when it is not looked at row by row.
NoPoints == [rows |-> <<>>, now |-> 0, returned |-> <<>>]
\* No request in progress for this handler.
NoRequest == [state |-> "idle", route |-> "", testId |-> 0, response |-> 0,
              evaluation |-> "none", before |-> NoEntry]

\* Cumulative counters of one variant; conversions never exceed views here.
Snapshots ==
  {s \in [views : ViewLevels, conversions : 0..MaxViews] : s.conversions <= s.views}

\* createTest: the test row with the configuration it was created with, its
\* variants inserted 'active' in order, no activity yet.  The analytics are
\* whatever ingestion has stored so far.
Init ==
  /\ \E run \in {<<"running", TRUE>>, <<"running", FALSE>>, <<"draft", TRUE>>},
        minSampleSize \in MinSampleSizes,
        killSwitchThreshold \in KillSwitchThresholds,
        autoWinThreshold \in AutoWinThresholds :
       tests = [id \in TestIds |->
                  [id |-> id, status |-> run[1], autonomousOptimization |-> run[2],
                   minSampleSize |-> minSampleSize,
                   killSwitchThreshold |-> killSwitchThreshold,
                   autoWinThreshold |-> autoWinThreshold,
                   winnerVariantId |-> 0]]
  /\ variants = [v \in VariantIds |->
                   [id |-> v, testId |-> 1, variantStatus |-> "active", statusReason |-> ""]]
  /\ analytics \in [VariantIds -> Snapshots]
  /\ activityLog = <<>>
  /\ pc = [p \in Procs |-> "idle"]
  /\ local = [p \in Procs |-> NoLocal]
  /\ entry = [p \in Procs |-> NoEntry]
  /\ prevPass = "none"
  /\ significance = NoCall
  /\ http = [p \in Procs |-> NoRequest]
  /\ changing = 0
  /\ analyticsTable = NoPoints

\* ---------------------------------------------------------------- storage
\* updateVariantStatus(variantId, status, reason)
updateVariantStatus(variantId, status, reason) ==
  [variants EXCEPT ![variantId].variantStatus = status, ![variantId].statusReason = reason]

\* Seeded fault: the winner is recorded and the test's status is left alone.
updateTestWinnerKeepsStatus(testId, winnerVariantId) ==
  [tests EXCEPT ![testId].winnerVariantId = winnerVariantId]

\* updateTestWinner(testId, winnerVariantId): also moves the test to winner_applied
updateTestWinner(testId, winnerVariantId) ==
  [tests EXCEPT ![testId].winnerVariantId = winnerVariantId,
                ![testId].status = "winner_applied"]

\* updateTestStatus(testId, status)
updateTestStatus(testId, status) == [tests EXCEPT ![testId].status = status]

\* updateTest(testId, req): the automation settings present in req.
updateTest(testId, req) ==
  [tests EXCEPT
     ![testId].autonomousOptimization =
        IF "autonomousOptimization" \in DOMAIN req THEN req.autonomousOptimization ELSE @,
     ![testId].killSwitchThreshold =
        IF "killSwitchThreshold" \in DOMAIN req THEN req.killSwitchThreshold ELSE @]

\* Seeded fault: an upsert, the new entry replacing the entries of the same
\* test, variant and action.
createActivityLogEntryUpserts(testId, variantId, action) ==
  LET Other(e) == ~(e.testId = testId /\ e.variantId = variantId /\ e.action = action)
  IN Append(SelectSeq(activityLog, Other),
            [testId |-> testId, variantId |-> variantId, action |-> action])

\* createActivityLogEntry(entry)
createActivityLogEntry(testId, variantId, action) ==
  Append(activityLog, [testId |-> testId, variantId |-> variantId, action |-> action])

\* ---------------------------------------------------------------- actions
\* Seeded fault: evaluations of one test are serialized, a call waiting until
\* no other evaluation of that test is in flight.
EvaluateGetTestSerialized(p, testId, order) ==
  /\ \A q \in Procs \ {p} : pc[q] = "idle" \/ local[q].testId # testId
  /\ pc[p] = "idle"
  /\ entry' = [entry EXCEPT ![p] =
                 [tests |-> tests, variants |-> variants, activityLog |-> activityLog]]
  /\ IF testId \notin DOMAIN tests
     THEN /\ pc' = [pc EXCEPT ![p] = "done"]
          /\ local' = [local EXCEPT ![p] = [NoLocal EXCEPT !.testId = testId,
                                                           !.outcome = "notFound"]]
     ELSE LET got == getTest(testId, order)
              test == [got.test EXCEPT !.id = testId] @@ [variants |-> got.variants]
          IN IF SkipTest(test)
             THEN /\ pc' = [pc EXCEPT ![p] = "done"]
                  /\ local' = [local EXCEPT ![p] = [NoLocal EXCEPT !.testId = testId,
                                                                   !.outcome = "skipped"]]
             ELSE /\ pc' = [pc EXCEPT ![p] = "getAnalytics"]
                  /\ local' = [local EXCEPT ![p] = [NoLocal EXCEPT !.testId = testId,
                                                                   !.test = test]]
  /\ UNCHANGED <<tests, variants, analytics, activityLog, prevPass, significance, http, changing, analyticsTable>>

\* evaluateTestPerformance(testId), up to the return of storage.getTest
\* (lines 71-78).
EvaluateGetTest(p, testId, order) ==
  /\ pc[p] = "idle"
  /\ entry' = [entry EXCEPT ![p] =
                 [tests |-> tests, variants |-> variants, activityLog |-> activityLog]]
  /\ IF testId \notin DOMAIN tests
     THEN /\ pc' = [pc EXCEPT ![p] = "done"]
          /\ local' = [local EXCEPT ![p] = [NoLocal EXCEPT !.testId = testId,
                                                           !.outcome = "notFound"]]
     ELSE LET got == getTest(testId, order)
              test == [got.test EXCEPT !.id = testId] @@ [variants |-> got.variants]
          IN IF SkipTest(test)
             THEN /\ pc' = [pc EXCEPT ![p] = "done"]
                  /\ local' = [local EXCEPT ![p] = [NoLocal EXCEPT !.testId = testId,
                                                                   !.outcome = "skipped"]]
             ELSE /\ pc' = [pc EXCEPT ![p] = "getAnalytics"]
                  /\ local' = [local EXCEPT ![p] = [NoLocal EXCEPT !.testId = testId,
                                                                   !.test = test]]
  /\ UNCHANGED <<tests, variants, analytics, activityLog, prevPass, significance, http, changing, analyticsTable>>

\* storage.getAnalytics(testId, '1m') and the computation up to the first
\* storage write (lines 80-142).
EvaluateGetAnalytics(p) ==
  /\ pc[p] = "getAnalytics"
  /\ LET perf == variantPerformance(local[p].test.variants, analytics)
         d    == Decide(local[p].test, perf)
     IN /\ local' = [local EXCEPT ![p].perf = perf, ![p].outcome = d.outcome,
                                  ![p].writes = d.writes]
        /\ pc' = [pc EXCEPT ![p] = IF d.writes = <<>> THEN "done" ELSE "write"]
  /\ UNCHANGED <<tests, variants, analytics, activityLog, entry, prevPass, significance, http, changing, analyticsTable>>

\* One awaited storage write of the evaluation (lines 146, 148, 179, 180, 182).
EvaluateWrite(p) ==
  /\ pc[p] = "write"
  /\ LET w == Head(local[p].writes)
     IN /\ variants' = IF w.op = "updateVariantStatus"
                       THEN updateVariantStatus(w.variantId, w.value,
                                                IF w.value = "winner" THEN "promoted" ELSE "underperformance")
                       ELSE variants
        /\ tests' = IF w.op = "updateTestWinner"
                    THEN updateTestWinner(local[p].testId, w.variantId)
                    ELSE tests
        /\ activityLog' = IF w.op = "createActivityLogEntry"
                          THEN createActivityLogEntry(local[p].testId, w.variantId, w.value)
                          ELSE activityLog
  /\ local' = [local EXCEPT ![p].writes = Tail(@)]
  /\ pc' = [pc EXCEPT ![p] = IF Tail(local[p].writes) = <<>> THEN "done" ELSE "write"]
  /\ UNCHANGED <<analytics, entry, prevPass, significance, http, changing, analyticsTable>>

\* Seeded fault: the rejection of a storage call is swallowed and the
\* evaluation goes on with its next storage call.
EvaluateWriteFailsAndGoesOn(p) ==
  /\ pc[p] = "write"
  /\ local' = [local EXCEPT ![p].writes = Tail(@)]
  /\ pc' = [pc EXCEPT ![p] = IF Tail(local[p].writes) = <<>> THEN "done" ELSE "write"]
  /\ UNCHANGED <<tests, variants, analytics, activityLog, entry, prevPass, significance, http, changing, analyticsTable>>

\* An awaited storage write rejects: the statement changed no row, the await
\* throws and, with no try/catch in evaluateTestPerformance, the evaluation's
\* promise rejects.  local[p].writes keeps the calls that were not completed,
\* the rejected one first.
EvaluateWriteFails(p) ==
  /\ pc[p] = "write"
  /\ pc' = [pc EXCEPT ![p] = "threw"]
  /\ UNCHANGED <<tests, variants, analytics, activityLog, local, entry, prevPass, significance, http, changing, analyticsTable>>

\* What an evaluation that has finished changed in the store.
Changed(p) ==
  \/ tests # entry[p].tests
  \/ variants # entry[p].variants
  \/ activityLog # entry[p].activityLog

\* The evaluation returns to its caller.
EvaluateReturn(p) ==
  /\ pc[p] = "done"
  /\ pc' = [pc EXCEPT ![p] = "idle"]
  /\ local' = [local EXCEPT ![p] = NoLocal]
  /\ entry' = [entry EXCEPT ![p] = NoEntry]
  /\ prevPass' = IF local[p].testId \in DOMAIN tests
                 THEN (IF Changed(p) THEN "acted" ELSE "noop")
                 ELSE prevPass
  /\ changing' = IF Changed(p) THEN changing + 1 ELSE changing
  /\ http' = IF http[p].state = "evaluate"
             THEN [http EXCEPT ![p].state = "log", ![p].evaluation = "returned"]
             ELSE http
  /\ UNCHANGED <<tests, variants, analytics, activityLog, significance, analyticsTable>>

\* The rejection reaches the caller of evaluateTestPerformance (the catch of
\* POST /api/tests/:id/evaluate, which answers 500).
EvaluateThrow(p) ==
  /\ pc[p] = "threw"
  /\ pc' = [pc EXCEPT ![p] = "idle"]
  /\ local' = [local EXCEPT ![p] = NoLocal]
  /\ entry' = [entry EXCEPT ![p] = NoEntry]
  /\ prevPass' = IF Changed(p) THEN "acted" ELSE "noop"
  /\ changing' = IF Changed(p) THEN changing + 1 ELSE changing
  /\ http' = IF http[p].state = "evaluate"
             THEN [http EXCEPT ![p].state = "catch", ![p].evaluation = "threw"]
             ELSE http
  /\ UNCHANGED <<tests, variants, analytics, activityLog, significance, analyticsTable>>

\* Ingestion (createAnalyticsBatch): a later cumulative snapshot of one
\* variant, each counter the previous one plus a non-negative increment.
Ingest(v, snapshot) ==
  /\ snapshot # analytics[v]
  /\ snapshot.views >= analytics[v].views
  /\ snapshot.conversions >= analytics[v].conversions
  /\ analytics' = [analytics EXCEPT ![v] = snapshot]
  /\ prevPass' = "none"
  /\ UNCHANGED <<tests, variants, activityLog, pc, local, entry, significance, http, changing, analyticsTable>>

Idle == \A p \in Procs : pc[p] = "idle"

\* Non-overlapping operations: an evaluation is called, and analytics are
\* ingested, only while no evaluation is in flight.
Sequential == {1}

Next ==
  \/ \E p \in Sequential, testId \in RequestIds :
       \E order \in RowOrders({v \in VariantIds : variants[v].testId = testId}) :
         Idle /\ EvaluateGetTest(p, testId, order)
  \/ \E p \in Sequential : EvaluateGetAnalytics(p)
  \/ \E p \in Sequential : EvaluateWrite(p)
  \/ \E p \in Sequential : EvaluateReturn(p)
  \/ \E v \in VariantIds, snapshot \in Snapshots :
       Idle /\ Ingest(v, snapshot)

Spec == Init /\ [][Next]_vars

\* The same operations when the variants query returns rows in creation
\* order (what the engine's "first variant = control" relies on).
NextOrdered ==
  \/ \E p \in Sequential, testId \in RequestIds :
       Idle /\ EvaluateGetTest(p, testId,
                               CreationOrder({v \in VariantIds : variants[v].testId = testId}))
  \/ \E p \in Sequential : EvaluateGetAnalytics(p)
  \/ \E p \in Sequential : EvaluateWrite(p)
  \/ \E p \in Sequential : EvaluateReturn(p)
  \/ \E v \in VariantIds, snapshot \in Snapshots :
       Idle /\ Ingest(v, snapshot)

SpecOrdered == Init /\ [][NextOrdered]_vars

\* Non-overlapping operations over a store whose writes may fail.
NextFail ==
  \/ \E p \in Sequential, testId \in RequestIds :
       \E order \in RowOrders({v \in VariantIds : variants[v].testId = testId}) :
         Idle /\ EvaluateGetTest(p, testId, order)
  \/ \E p \in Sequential : EvaluateGetAnalytics(p)
  \/ \E p \in Sequential : EvaluateWrite(p)
  \/ \E p \in Sequential : EvaluateWriteFails(p)
  \/ \E p \in Sequential : EvaluateReturn(p)
  \/ \E p \in Sequential : EvaluateThrow(p)
  \/ \E v \in VariantIds, snapshot \in Snapshots :
       Idle /\ Ingest(v, snapshot)

SpecFail == Init /\ [][NextFail]_vars

\* Two overlapping calls on the same test: evaluation 1 is called, evaluation
\* 2 is called while evaluation 1 is between two of its awaits, and one
\* analytics batch may be ingested between their getAnalytics reads.  Nothing
\* in evaluateTestPerformance or in the storage layer takes a lock, so every
\* interleaving of their awaited storage calls is a run.  Rows are read in
\* creation order here.
InitOverlap == Init /\ tests[1].status = "running" /\ tests[1].autonomousOptimization

NextOverlap ==
  \/ \E p \in Procs, testId \in TestIds :
       /\ prevPass = "none"
       /\ \A q \in Procs : q < p => pc[q] # "idle"
       /\ EvaluateGetTest(p, testId,
                          CreationOrder({v \in VariantIds : variants[v].testId = testId}))
  \/ \E p \in Procs : EvaluateGetAnalytics(p)
  \/ \E p \in Procs : EvaluateWrite(p)
  \/ \E p \in Procs : EvaluateReturn(p)
  \/ \E v \in VariantIds, snapshot \in Snapshots :
       /\ \E p, q \in Procs :
            /\ pc[p] \in {"write", "done"} /\ pc[q] = "getAnalytics"
            /\ local[p].perf = variantPerformance(local[p].test.variants, analytics)
       /\ Ingest(v, snapshot)

SpecOverlap == InitOverlap /\ [][NextOverlap]_vars

\* The same non-overlapping operations on a running test whose configuration
\* holds any stored killSwitchThreshold: the column is a real with no CHECK
\* constraint (schema.ts), and neither createTest nor PATCH automation
\* validates its sign, so a threshold below zero is a stored configuration
\* as much as the default 30.
SignedKillSwitchThresholds == {0 - 50, 30}

InitThresholds ==
  /\ \E killSwitchThreshold \in SignedKillSwitchThresholds :
       tests = [id \in TestIds |->
                  [id |-> id, status |-> "running", autonomousOptimization |-> TRUE,
                   minSampleSize |-> 0,
                   killSwitchThreshold |-> killSwitchThreshold,
                   autoWinThreshold |-> 50,
                   winnerVariantId |-> 0]]
  /\ variants = [v \in VariantIds |->
                   [id |-> v, testId |-> 1, variantStatus |-> "active", statusReason |-> ""]]
  /\ analytics \in [VariantIds -> Snapshots]
  /\ activityLog = <<>>
  /\ pc = [p \in Procs |-> "idle"]
  /\ local = [p \in Procs |-> NoLocal]
  /\ entry = [p \in Procs |-> NoEntry]
  /\ prevPass = "none"
  /\ significance = NoCall
  /\ http = [p \in Procs |-> NoRequest]
  /\ changing = 0
  /\ analyticsTable = NoPoints

NextThresholds ==
  \/ \E p \in Sequential, testId \in RequestIds :
       \E order \in RowOrders({v \in VariantIds : variants[v].testId = testId}) :
         Idle /\ EvaluateGetTest(p, testId, order)
  \/ \E p \in Sequential : EvaluateGetAnalytics(p)
  \/ \E p \in Sequential : EvaluateWrite(p)
  \/ \E p \in Sequential : EvaluateReturn(p)
  \/ \E v \in VariantIds, snapshot \in Snapshots :
       Idle /\ Ingest(v, snapshot)

SpecThresholds == InitThresholds /\ [][NextThresholds]_vars

\* ------------------------------------------------------------ getAnalytics
\* storage.getAnalytics(testId, '1m'), in days: the window is the last 30
\* days, a bucket is one week (storage.ts 109-113).
WindowDays == 30
BucketDays == 7

\* A Map: its entries in insertion order; set() on a key that is present
\* replaces the value and keeps the entry's place.
MapHas(m, key) == \E i \in DOMAIN m : m[i].key = key
MapGet(m, key) == m[CHOOSE i \in DOMAIN m : m[i].key = key].value
MapSet(m, key, value) ==
  IF MapHas(m, key)
  THEN [i \in DOMAIN m |-> IF m[i].key = key THEN [key |-> key, value |-> value] ELSE m[i]]
  ELSE Append(m, [key |-> key, value |-> value])

\* The orders in which the query can return the rows S: ascending timestamp,
\* rows of equal timestamp in any order (storage.ts 117-123).
AllPointsOrders(S) ==
  {o \in RowOrders(S) : \A i, j \in DOMAIN o : i < j => o[i].timestamp <= o[j].timestamp}

\* for (const point of allPoints) { ... variantBuckets.set(bucketStart, point) }
RECURSIVE groupedByVariant(_, _)
groupedByVariant(allPoints, grouped) ==
  IF allPoints = <<>> THEN grouped
  ELSE LET point          == Head(allPoints)
           bucketStart    == (point.timestamp \div BucketDays) * BucketDays
           variantBuckets == IF MapHas(grouped, point.variantId)
                             THEN MapGet(grouped, point.variantId) ELSE <<>>
       IN groupedByVariant(Tail(allPoints),
                           MapSet(grouped, point.variantId,
                                  MapSet(variantBuckets, bucketStart, point)))

\* groupedByVariant.forEach(buckets => buckets.forEach(point => result.push(point)))
RECURSIVE Flatten(_)
Flatten(grouped) ==
  IF grouped = <<>> THEN <<>>
  ELSE [i \in DOMAIN Head(grouped).value |-> Head(grouped).value[i].value]
       \o Flatten(Tail(grouped))

\* result.sort((a, b) => a.timestamp - b.timestamp): a stable sort.
RECURSIVE sortByTimestamp(_)
sortByTimestamp(s) ==
  IF s = <<>> THEN <<>>
  ELSE LET sorted == sortByTimestamp(SubSeq(s, 1, Len(s) - 1))
           last   == s[Len(s)]
           NotAfter(x) == x.timestamp <= last.timestamp
           After(x)    == x.timestamp > last.timestamp
       IN SelectSeq(sorted, NotAfter) \o <<last>> \o SelectSeq(sorted, After)

\* The rows of the table in the window that starts WindowDays before now.
InWindow(rows, now) == {rows[i] : i \in {j \in DOMAIN rows : rows[j].timestamp >= now - WindowDays}}

\* Seeded fault: the first point of a bucket is kept, not the last.
getAnalyticsKeepsFirst(allPoints) ==
  sortByTimestamp(Flatten(groupedByVariant(
    [i \in DOMAIN allPoints |-> allPoints[Len(allPoints) + 1 - i]], <<>>)))

\* getAnalytics on the rows the query returned (storage.ts 125-153).
getAnalytics(allPoints) ==
  IF allPoints = <<>> THEN <<>>
  ELSE sortByTimestamp(Flatten(groupedByVariant(allPoints, <<>>)))

\* What evaluateTestPerformance takes from analyticsData for one variant
\* (routes.ts 85-88).
latestData(analyticsData, variantId) ==
  LET Of(a) == a.variantId = variantId
      variantData == SelectSeq(analyticsData, Of)
  IN IF variantData = <<>>
     THEN [views |-> 0, conversions |-> 0]
     ELSE [views       |-> variantData[Len(variantData)].views,
           conversions |-> variantData[Len(variantData)].conversions]

\* createAnalyticsBatch: one more row, with the next serial id.
IngestPoint(variantId, timestamp, counters) ==
  /\ Len(analyticsTable.rows) < MaxPoints
  /\ analyticsTable' =
       [rows |-> Append(analyticsTable.rows,
                        [id |-> Len(analyticsTable.rows) + 1, variantId |-> variantId,
                         timestamp |-> timestamp, views |-> counters.views,
                         conversions |-> counters.conversions]),
        now |-> 0, returned |-> <<>>]
  /\ UNCHANGED <<tests, variants, analytics, activityLog, pc, local, entry, prevPass,
                 significance, http, changing>>

\* The evaluator's read at clock reading now: getAnalytics(testId, '1m') and
\* the latest views and conversions it takes for each variant.
ReadAnalytics(now, allPoints) ==
  /\ analyticsTable.rows # <<>>
  /\ analyticsTable' = [analyticsTable EXCEPT !.now = now,
                                              !.returned = getAnalytics(allPoints)]
  /\ analytics' = [v \in VariantIds |-> latestData(getAnalytics(allPoints), v)]
  /\ UNCHANGED <<tests, variants, activityLog, pc, local, entry, prevPass,
                 significance, http, changing>>

InitAnalytics ==
  /\ tests = [id \in TestIds |->
                [id |-> id, status |-> "running", autonomousOptimization |-> TRUE,
                 minSampleSize |-> 0, killSwitchThreshold |-> 30,
                 autoWinThreshold |-> 50, winnerVariantId |-> 0]]
  /\ variants = [v \in VariantIds |->
                   [id |-> v, testId |-> 1, variantStatus |-> "active", statusReason |-> ""]]
  /\ analytics = [v \in VariantIds |-> [views |-> 0, conversions |-> 0]]
  /\ activityLog = <<>>
  /\ pc = [p \in Procs |-> "idle"]
  /\ local = [p \in Procs |-> NoLocal]
  /\ entry = [p \in Procs |-> NoEntry]
  /\ prevPass = "none"
  /\ significance = NoCall
  /\ http = [p \in Procs |-> NoRequest]
  /\ changing = 0
  /\ analyticsTable = NoPoints

\* The table is filled row by row, then read once.
NextAnalytics ==
  \/ \E variantId \in PointVariants, timestamp \in Timestamps, counters \in PointCounters :
       analyticsTable.now = 0 /\ IngestPoint(variantId, timestamp, counters)
  \/ \E now \in Clocks :
       \E allPoints \in AllPointsOrders(InWindow(analyticsTable.rows, now)) :
         analyticsTable.now = 0 /\ ReadAnalytics(now, allPoints)

SpecAnalytics == InitAnalytics /\ [][NextAnalytics]_vars

\* ----------------------------------------------------------------- routes
\* The request handlers of registerRoutes that write to the store.  A handler
\* answers by moving to "answered" with its status code; RouteDone ends it.
NoRequests == \A p \in Procs : http[p].state = "idle"

Request(route, testId) ==
  [NoRequest EXCEPT !.route = route, !.testId = testId,
                    !.before = [tests |-> tests, variants |-> variants,
                                activityLog |-> activityLog]]

Answer(request, response) == [request EXCEPT !.state = "answered", !.response = response]

\* POST /api/tests/:id/start (routes.ts 289-293)
RouteStart(p, testId) ==
  /\ http[p].state = "idle"
  /\ IF testId \in DOMAIN tests
     THEN /\ tests' = updateTestStatus(testId, "running")
          /\ http' = [http EXCEPT ![p] = Answer(Request("start", testId), 200)]
     ELSE /\ tests' = tests
          /\ http' = [http EXCEPT ![p] = Answer(Request("start", testId), 404)]
  /\ UNCHANGED <<variants, analytics, activityLog, pc, local, entry, prevPass,
                 significance, changing, analyticsTable>>

\* POST apply-winner (routes.ts 274-287)
RouteApplyWinner(p, testId, winnerVariantId) ==
  /\ http[p].state = "idle"
  /\ IF winnerVariantId = 0
     THEN /\ tests' = tests
          /\ http' = [http EXCEPT ![p] = Answer(Request("applyWinner", testId), 400)]
     ELSE IF testId \in DOMAIN tests
     THEN /\ tests' = updateTestWinner(testId, winnerVariantId)
          /\ http' = [http EXCEPT ![p] = Answer(Request("applyWinner", testId), 200)]
     ELSE /\ tests' = tests
          /\ http' = [http EXCEPT ![p] = Answer(Request("applyWinner", testId), 404)]
  /\ UNCHANGED <<variants, analytics, activityLog, pc, local, entry, prevPass,
                 significance, changing, analyticsTable>>

\* PATCH /api/tests/:id/automation (routes.ts 535-566)
RouteAutomation(p, testId, body) ==
  /\ http[p].state = "idle"
  /\ Len(activityLog) < MaxLog
  /\ IF testId \in DOMAIN tests
     THEN /\ tests' = updateTest(testId, body)
          /\ activityLog' = IF "autonomousOptimization" \in DOMAIN body
                            THEN createActivityLogEntry(testId, 0, "evaluation")
                            ELSE activityLog
          /\ http' = [http EXCEPT ![p] = Answer(Request("automation", testId), 200)]
     ELSE /\ tests' = tests
          /\ activityLog' = activityLog
          /\ http' = [http EXCEPT ![p] = Answer(Request("automation", testId), 404)]
  /\ UNCHANGED <<variants, analytics, pc, local, entry, prevPass, significance, changing, analyticsTable>>

\* POST /api/tests/:id/evaluate up to its call of evaluateTestPerformance
\* (routes.ts 500-512).
RouteEvaluateGetTest(p, testId) ==
  /\ http[p].state = "idle"
  /\ Len(activityLog) < MaxLog
  /\ http' = [http EXCEPT ![p] =
       IF testId \notin DOMAIN tests THEN Answer(Request("evaluate", testId), 404)
       ELSE IF tests[testId].status # "running" THEN Answer(Request("evaluate", testId), 400)
       ELSE [Request("evaluate", testId) EXCEPT !.state = "evaluate"]]
  /\ UNCHANGED <<tests, variants, analytics, activityLog, pc, local, entry, prevPass,
                 significance, changing, analyticsTable>>

\* The 'evaluation' entry after the evaluation returned (routes.ts 516-523).
RouteEvaluateLog(p) ==
  /\ http[p].state = "log"
  /\ activityLog' = createActivityLogEntry(http[p].testId, 0, "evaluation")
  /\ http' = [http EXCEPT ![p].state = "refetch"]
  /\ UNCHANGED <<tests, variants, analytics, pc, local, entry, prevPass, significance,
                 changing, analyticsTable>>

\* The same storage call rejects: nothing is inserted, the catch is entered.
RouteEvaluateLogFails(p) ==
  /\ http[p].state = "log"
  /\ http' = [http EXCEPT ![p].state = "catch"]
  /\ UNCHANGED <<tests, variants, analytics, activityLog, pc, local, entry, prevPass,
                 significance, changing, analyticsTable>>

\* Refetch and answer with the updated test (routes.ts 526-527).
RouteEvaluateRefetch(p) ==
  /\ http[p].state = "refetch"
  /\ http' = [http EXCEPT ![p] = Answer(@, 200)]
  /\ UNCHANGED <<tests, variants, analytics, activityLog, pc, local, entry, prevPass,
                 significance, changing, analyticsTable>>

\* The refetch rejects: the catch is entered.
RouteEvaluateRefetchFails(p) ==
  /\ http[p].state = "refetch"
  /\ http' = [http EXCEPT ![p].state = "catch"]
  /\ UNCHANGED <<tests, variants, analytics, activityLog, pc, local, entry, prevPass,
                 significance, changing, analyticsTable>>

\* Seeded fault: the catch writes the 'evaluation' entry before answering.
RouteEvaluateCatchLogs(p) ==
  /\ http[p].state = "catch"
  /\ activityLog' = createActivityLogEntry(http[p].testId, 0, "evaluation")
  /\ http' = [http EXCEPT ![p] = Answer(@, 500)]
  /\ UNCHANGED <<tests, variants, analytics, pc, local, entry, prevPass, significance,
                 changing, analyticsTable>>

\* catch (error): 500 (routes.ts 528-531).
RouteEvaluateCatch(p) ==
  /\ http[p].state = "catch"
  /\ http' = [http EXCEPT ![p] = Answer(@, 500)]
  /\ UNCHANGED <<tests, variants, analytics, activityLog, pc, local, entry, prevPass,
                 significance, changing, analyticsTable>>

\* The answer has been sent.
RouteDone(p) ==
  /\ http[p].state = "answered"
  /\ http' = [http EXCEPT ![p] = NoRequest]
  /\ UNCHANGED <<tests, variants, analytics, activityLog, pc, local, entry, prevPass,
                 significance, changing, analyticsTable>>

\* Non-overlapping operations of the engine and of the operator: evaluate
\* (called directly, or by the manual trigger), start, apply-winner and
\* automation settings, over a store whose calls may fail.  The test starts
\* with one configuration and every variant has its views; rows are read in
\* creation order.
RouteSnapshots == {s \in Snapshots : s.views = MaxViews /\ s.conversions \in {1, 2, MaxViews}}

InitRoutes ==
  /\ Init
  /\ \A v \in VariantIds : analytics[v] \in RouteSnapshots
  /\ tests[1].minSampleSize = 0
  /\ tests[1].killSwitchThreshold = 30
  /\ tests[1].autoWinThreshold = 50

NextRoutes ==
  \/ \E p \in Sequential, testId \in RequestIds :
       /\ Idle /\ NoRequests
       /\ \/ RouteStart(p, testId)
          \/ \E winnerVariantId \in WinnerBodies : RouteApplyWinner(p, testId, winnerVariantId)
          \/ \E body \in AutomationBodies : RouteAutomation(p, testId, body)
          \/ RouteEvaluateGetTest(p, testId)
  \/ \E p \in Sequential, testId \in RequestIds :
       /\ pc[p] = "idle"
       /\ \/ NoRequests /\ Len(activityLog) < MaxLog
          \/ http[p].state = "evaluate" /\ http[p].testId = testId
       /\ EvaluateGetTest(p, testId,
                          CreationOrder({v \in VariantIds : variants[v].testId = testId}))
  \/ \E p \in Sequential : EvaluateGetAnalytics(p)
  \/ \E p \in Sequential : EvaluateWrite(p)
  \/ \E p \in Sequential : EvaluateWriteFails(p)
  \/ \E p \in Sequential : EvaluateReturn(p)
  \/ \E p \in Sequential : EvaluateThrow(p)
  \/ \E p \in Sequential : RouteEvaluateLog(p)
  \/ \E p \in Sequential : RouteEvaluateLogFails(p)
  \/ \E p \in Sequential : RouteEvaluateRefetch(p)
  \/ \E p \in Sequential : RouteEvaluateRefetchFails(p)
  \/ \E p \in Sequential : RouteEvaluateCatch(p)
  \/ \E p \in Sequential : RouteDone(p)

SpecRoutes == InitRoutes /\ [][NextRoutes]_vars

\* Non-overlapping evaluate calls and the operator's start and apply-winner
\* requests, over a store whose calls all succeed.
NextOperator ==
  \/ \E p \in Sequential, testId \in RequestIds :
       Idle /\ NoRequests /\ RouteStart(p, testId)
  \/ \E p \in Sequential, testId \in RequestIds, winnerVariantId \in WinnerBodies :
       Idle /\ NoRequests /\ RouteApplyWinner(p, testId, winnerVariantId)
  \/ \E p \in Sequential, testId \in RequestIds :
       /\ Idle /\ NoRequests
       /\ EvaluateGetTest(p, testId,
                          CreationOrder({v \in VariantIds : variants[v].testId = testId}))
  \/ \E p \in Sequential : EvaluateGetAnalytics(p)
  \/ \E p \in Sequential : EvaluateWrite(p)
  \/ \E p \in Sequential : EvaluateReturn(p)
  \/ \E p \in Sequential : RouteDone(p)

SpecOperator == InitRoutes /\ [][NextOperator]_vars

\* calculateStatisticalSignificance on its own: a call with arguments drawn
\* from SigInputs, over a store in which nothing is running, and its return.
InitSig ==
  /\ tests = [id \in TestIds |->
                [id |-> id, status |-> "draft", autonomousOptimization |-> FALSE,
                 minSampleSize |-> 0, killSwitchThreshold |-> 30,
                 autoWinThreshold |-> 50, winnerVariantId |-> 0]]
  /\ variants = [v \in VariantIds |->
                   [id |-> v, testId |-> 1, variantStatus |-> "active", statusReason |-> ""]]
  /\ analytics = [v \in VariantIds |-> [views |-> 0, conversions |-> 0]]
  /\ activityLog = <<>>
  /\ pc = [p \in Procs |-> "idle"]
  /\ local = [p \in Procs |-> NoLocal]
  /\ entry = [p \in Procs |-> NoEntry]
  /\ prevPass = "none"
  /\ significance \in {[args |-> a, result |-> <<>>] : a \in SigInputs}
  /\ http = [p \in Procs |-> NoRequest]
  /\ changing = 0
  /\ analyticsTable = NoPoints

SignificanceReturn ==
  /\ significance.args # <<>>
  /\ significance.result = <<>>
  /\ significance' =
       [significance EXCEPT !.result =
          << calculateStatisticalSignificance(significance.args[1], significance.args[2],
                                              significance.args[3], significance.args[4]) >>]
  /\ UNCHANGED <<tests, variants, analytics, activityLog, pc, local, entry, prevPass, http, changing, analyticsTable>>

SignificanceCall(a) ==
  /\ significance.result # <<>>
  /\ significance' = [args |-> a, result |-> <<>>]
  /\ UNCHANGED <<tests, variants, analytics, activityLog, pc, local, entry, prevPass, http, changing, analyticsTable>>

NextSig ==
  \/ SignificanceReturn
  \/ \E a \in SigInputs : SignificanceCall(a)

SpecSig == InitSig /\ [][NextSig]_vars

\* ------------------------------------------------- vocabulary of the claims
InFlight(p) == pc[p] # "idle"
Done(p) == pc[p] = "done"
Found(p) == local[p].testId \in DOMAIN tests

\* The test row and the variants as they were when evaluation p was called.
EntryTest(p) == entry[p].tests[local[p].testId]
EntryVariants(p) == {v \in VariantIds : entry[p].variants[v].testId = local[p].testId}
EntryActive(p) == {v \in EntryVariants(p) : entry[p].variants[v].variantStatus = "active"}

\* The control of the test: its first variant by creation order.
ControlId(testId) ==
  LET S == {v \in VariantIds : variants[v].testId = testId}
  IN CHOOSE v \in S : \A w \in S : v <= w

\* The performance of the test's variants at entry, in creation order, and
\* of one variant.
EntryPerf(p) ==
  variantPerformance([i \in 1..Cardinality(EntryVariants(p)) |->
                        entry[p].variants[CreationOrder(EntryVariants(p))[i]]],
                     analytics)
PerfOf(p, v) == CHOOSE x \in Range(EntryPerf(p)) : x.variantId = v

\* The activity-log entries appended since evaluation p was called.
NewEntries(p) == SubSeq(activityLog, Len(entry[p].activityLog) + 1, Len(activityLog))
NewEntriesOf(p, action) ==
  LET Is(e) == e.action = action IN SelectSeq(NewEntries(p), Is)

\* Evaluation p has passed every early exit, judged with the first-created
\* variant as control.
PassesExits(p) ==
  /\ Found(p)
  /\ EntryTest(p).autonomousOptimization /\ EntryTest(p).status = "running"
  /\ LET active == activeVariants(EntryPerf(p))
     IN /\ Len(active) >= 2
        /\ \A i \in DOMAIN active : active[i].views >= EntryTest(p).minSampleSize
        /\ ~Negligible(avgConversionRate(active))
        /\ ~Negligible(conversionRate(EntryPerf(p)[1]))

\* Variant v meets the kill-switch condition against the average of the
\* variants active at entry.
Underperforms(p, v) ==
  FracGE(underperformancePercent(avgConversionRate(activeVariants(EntryPerf(p))),
                                 conversionRate(PerfOf(p, v))),
         EntryTest(p).killSwitchThreshold)

DisabledInPass(p) ==
  {v \in EntryVariants(p) : /\ variants[v].variantStatus = "disabled"
                            /\ entry[p].variants[v].variantStatus # "disabled"}
PromotedInPass(p) ==
  {v \in EntryVariants(p) :
     \/ /\ variants[v].variantStatus = "winner"
        /\ entry[p].variants[v].variantStatus # "winner"
     \/ /\ tests[local[p].testId].status = "winner_applied"
        /\ EntryTest(p).status # "winner_applied"
        /\ tests[local[p].testId].winnerVariantId = v}

\* ----------------------------------------------------------------- claims

\* C1 (control immunity): in every state the control variant of the test, its
\* first variant by creation order, does not have variantStatus 'disabled'.
C1_ControlNeverDisabled ==
  \A t \in TestIds : variants[ControlId(t)].variantStatus # "disabled"

\* C2 (minimum sample gating): an evaluation called while some active
\* variant's latest views are below the test's minSampleSize issues no write:
\* it never reaches a storage write and tests, variants and the activity log
\* stay as they were at its entry.
C2_MinSampleGating ==
  \A p \in Procs :
    (/\ InFlight(p) /\ Found(p)
     /\ \E v \in EntryActive(p) : analytics[v].views < EntryTest(p).minSampleSize)
    => (pc[p] # "write" /\ ~Changed(p))

\* C2 witness: an evaluation of a running, autonomous test returned at the
\* minimum-sample exit although, without that exit, it would have written.
C2_Witness ==
  \E p \in Procs :
    /\ Done(p) /\ local[p].outcome = "noMinSample"
    /\ \E v \in EntryActive(p) : analytics[v].views < EntryTest(p).minSampleSize
    /\ Decide([local[p].test EXCEPT !.minSampleSize = 0], local[p].perf).writes # <<>>
    /\ ~Changed(p)

\* C3 (auto-win requires both conditions): a variant is promoted in an
\* evaluation (set to 'winner', or made the winner of a test moved to
\* 'winner_applied') only if it is not the control, no active variant has a
\* higher rate, its uplift over the control is >= autoWinThreshold and the
\* significance test on (control, that variant) is significant.
C3_PromotionNeedsBoth ==
  \A p \in Procs :
    (Done(p) /\ Found(p)) =>
      \A v \in PromotedInPass(p) :
        LET control == EntryPerf(p)[1]
            best    == PerfOf(p, v)
            active  == activeVariants(EntryPerf(p))
        IN /\ v # control.variantId
           /\ \A i \in DOMAIN active :
                ~FracGT(conversionRate(active[i]), conversionRate(best))
           /\ ~Negligible(conversionRate(control))
           /\ FracGE(upliftPercent(conversionRate(best), conversionRate(control)),
                     EntryTest(p).autoWinThreshold)
           /\ calculateStatisticalSignificance(control.conversions, control.views,
                                               best.conversions, best.views).significant

\* C4 (auto-win effect): when an evaluation that passes every early exit
\* returns, and the best performer is not the control, its uplift is >=
\* autoWinThreshold and the test is significant, the best performer is
\* 'winner', the test points at it and is 'winner_applied', and exactly one
\* 'promoted_winner' entry was appended in the pass, for that variant.
C4_AutoWinEffect ==
  \A p \in Procs :
    (Done(p) /\ PassesExits(p)) =>
      LET control == EntryPerf(p)[1]
          best    == bestPerformer(activeVariants(EntryPerf(p)))
          entries == NewEntriesOf(p, "promoted_winner")
      IN (/\ best.variantId # control.variantId
          /\ FracGE(upliftPercent(conversionRate(best), conversionRate(control)),
                    EntryTest(p).autoWinThreshold)
          /\ calculateStatisticalSignificance(control.conversions, control.views,
                                              best.conversions, best.views).significant)
         => /\ variants[best.variantId].variantStatus = "winner"
            /\ tests[local[p].testId].winnerVariantId = best.variantId
            /\ tests[local[p].testId].status = "winner_applied"
            /\ Len(entries) = 1 /\ entries[1].variantId = best.variantId

\* C5 (kill-switch boundary): when an evaluation that passes every early exit
\* returns, each non-control variant active at entry is 'disabled' if and
\* only if its underperformance against the average of the variants active
\* at entry is >= killSwitchThreshold.
C5_KillSwitchBoundary ==
  \A p \in Procs :
    (Done(p) /\ PassesExits(p)) =>
      \A v \in EntryActive(p) \ {ControlId(local[p].testId)} :
        (variants[v].variantStatus = "disabled") <=> Underperforms(p, v)

\* C6 (idempotence after terminal transition), as the spec states it: an
\* evaluation that follows one which changed the store, with no analytics
\* ingested in between, changes nothing.
C6_RerunChangesNothing ==
  \A p \in Procs :
    (InFlight(p) /\ Found(p) /\ prevPass = "acted") => ~Changed(p)

\* C6 amended: such a re-run changes nothing once the test is no longer
\* 'running' or fewer than two variants are still 'active'; and in any case
\* it leaves every variant that is already 'disabled' or 'winner' as it is
\* and appends no activity-log entry about it.
C6_RerunTerminal ==
  \A p \in Procs :
    (InFlight(p) /\ Found(p) /\ prevPass = "acted") =>
      /\ (EntryTest(p).status # "running" \/ Cardinality(EntryActive(p)) < 2)
           => (pc[p] # "write" /\ ~Changed(p))
      /\ \A v \in EntryVariants(p) \ EntryActive(p) :
           /\ variants[v] = entry[p].variants[v]
           /\ \A i \in DOMAIN NewEntries(p) : NewEntries(p)[i].variantId # v

\* C6 witness: after an evaluation that promoted a winner, a re-run on the
\* same analytics has returned and changed nothing.
C6_Witness ==
  \E p \in Procs :
    /\ Done(p) /\ Found(p) /\ prevPass = "acted"
    /\ EntryTest(p).status = "winner_applied"
    /\ EntryVariants(p) # EntryActive(p)
    /\ ~Changed(p)

\* C7 (early exits are no-ops): an evaluation of a test that does not exist,
\* is not autonomous, is not 'running', or has fewer than two 'active'
\* variants never reaches a storage write and leaves tests, variants and the
\* activity log as they were at its entry.
C7_EarlyExitsNoWrite ==
  \A p \in Procs :
    (/\ InFlight(p)
     /\ \/ ~Found(p)
        \/ ~EntryTest(p).autonomousOptimization
        \/ EntryTest(p).status # "running"
        \/ Cardinality(EntryActive(p)) < 2)
    => (pc[p] # "write" /\ ~Changed(p))

\* C7 witness: an evaluation of a running, autonomous test with fewer than
\* two active variants has returned.
C7_Witness ==
  \E p \in Procs :
    /\ Done(p) /\ Found(p)
    /\ EntryTest(p).autonomousOptimization /\ EntryTest(p).status = "running"
    /\ Cardinality(EntryActive(p)) < 2
    /\ ~Changed(p)

\* C8 (zero-baseline guards): an evaluation issues no write when the average
\* rate of the variants active at entry is <= 0.001, or when the rate of the
\* control (the first variant by creation order) is <= 0.001.
C8_ZeroBaselineNoWrite ==
  \A p \in Procs :
    (/\ InFlight(p) /\ Found(p)
     /\ \/ Negligible(avgConversionRate(activeVariants(EntryPerf(p))))
        \/ Negligible(conversionRate(EntryPerf(p)[1])))
    => (pc[p] # "write" /\ ~Changed(p))

\* The auto-win rule holds for the variants evaluation p read as active:
\* their best performer is not the variant p uses as baseline, its uplift over
\* that baseline is >= autoWinThreshold, and the test on the two is significant.
AutoWinDue(p) ==
  LET control == local[p].perf[1]
      best    == bestPerformer(activeVariants(local[p].perf))
  IN /\ best.variantId # control.variantId
     /\ FracGE(upliftPercent(conversionRate(best), conversionRate(control)),
               local[p].test.autoWinThreshold)
     /\ calculateStatisticalSignificance(control.conversions, control.views,
                                         best.conversions, best.views).significant

\* C9 (both rules in one pass): when an evaluation that went past the early
\* exits returns, it has promoted the best performer of the variants active
\* at its entry exactly when the auto-win rule holds for them, whether or not
\* it disabled variants in the same pass.
C9_KillSwitchDoesNotBlockAutoWin ==
  \A p \in Procs :
    (Done(p) /\ local[p].outcome = "act") =>
      /\ AutoWinDue(p) =>
           /\ PromotedInPass(p) = {bestPerformer(activeVariants(local[p].perf)).variantId}
           /\ Len(NewEntriesOf(p, "promoted_winner")) = 1
      /\ ~AutoWinDue(p) =>
           /\ PromotedInPass(p) = {}
           /\ NewEntriesOf(p, "promoted_winner") = <<>>

\* C9 witness: one evaluation has both disabled a variant and promoted a winner.
C9_Witness ==
  \E p \in Procs :
    /\ Done(p) /\ local[p].outcome = "act"
    /\ DisabledInPass(p) # {}
    /\ NewEntriesOf(p, "disabled_variant") # <<>>
    /\ PromotedInPass(p) # {}
    /\ NewEntriesOf(p, "promoted_winner") # <<>>

\* C10 (independent disablements): when an evaluation that passes every early
\* exit returns, every non-control variant active at entry that meets the
\* kill-switch condition is 'disabled', and the 'disabled_variant' entries
\* appended in the pass name exactly the variants disabled in the pass, once
\* each.
C10_IndependentDisablements ==
  \A p \in Procs :
    (Done(p) /\ PassesExits(p)) =>
      LET entries == NewEntriesOf(p, "disabled_variant")
      IN /\ \A v \in EntryActive(p) \ {ControlId(local[p].testId)} :
              Underperforms(p, v) => variants[v].variantStatus = "disabled"
         /\ {entries[i].variantId : i \in DOMAIN entries} = DisabledInPass(p)
         /\ Len(entries) = Cardinality(DisabledInPass(p))

\* The store as a record, and the store after the storage calls `writes` of an
\* evaluation of test testId completed on it, in order.
Store == [tests |-> tests, variants |-> variants, activityLog |-> activityLog]

RECURSIVE Applied(_, _, _)
Applied(store, testId, writes) ==
  IF writes = <<>> THEN store
  ELSE LET w == Head(writes)
           after ==
             CASE w.op = "updateVariantStatus" ->
                    [store EXCEPT !.variants[w.variantId].variantStatus = w.value,
                                  !.variants[w.variantId].statusReason =
                                     IF w.value = "winner" THEN "promoted" ELSE "underperformance"]
               [] w.op = "updateTestWinner" ->
                    [store EXCEPT !.tests[testId].winnerVariantId = w.variantId,
                                  !.tests[testId].status = "winner_applied"]
               [] w.op = "createActivityLogEntry" ->
                    [store EXCEPT !.activityLog =
                       Append(@, [testId |-> testId, variantId |-> w.variantId,
                                  action |-> w.value])]
       IN Applied(after, testId, Tail(writes))

\* The storage calls evaluation p set out to issue, and those that completed.
Planned(p) == Decide(local[p].test, local[p].perf).writes
Completed(p) == SubSeq(Planned(p), 1, Len(Planned(p)) - Len(local[p].writes))

\* C11 (failed write aborts the pass): a storage write of an evaluation that
\* fails changes nothing in tests, variants and the activity log and makes the
\* evaluation throw to its caller; an evaluation that has thrown issues no
\* further write (it only returns the failure); and the store it leaves is
\* the store at its entry with exactly the writes that completed before the
\* failure applied, none rolled back.
C11_FailedWriteAborts ==
  /\ [](\A p \in Procs :
          pc[p] = "threw" =>
            /\ local[p].writes # <<>>
            /\ Store = Applied(entry[p], local[p].testId, Completed(p)))
  /\ [][\A p \in Procs :
          /\ (pc[p] = "write" /\ Store' = Store) => (pc'[p] = "threw" /\ local'[p] = local[p])
          /\ pc[p] = "threw" => (pc'[p] = "idle" /\ Store' = Store)]_vars

\* C11 witness: an evaluation has thrown on a failed write after an earlier
\* write of the same pass succeeded; that write is still applied.
C11_Witness ==
  \E p \in Procs :
    /\ pc[p] = "threw"
    /\ Completed(p) # <<>>
    /\ Changed(p)
    /\ \E v \in DisabledInPass(p) : NewEntriesOf(p, "disabled_variant") = <<>>

\* The promotion evaluation p set out to write, as a set of variant ids.
PlannedWinners(p) ==
  {Planned(p)[i].variantId :
     i \in {k \in DOMAIN Planned(p) : Planned(p)[k].op = "updateTestWinner"}}

\* C12 (no internal mutual exclusion): while an evaluation of a test is in
\* flight, a second call on the same test is accepted and an evaluation in its
\* write phase issues its next write: neither waits for the other; so two
\* evaluations of one test can both have read it as 'running' and be in their
\* write phase together.
C12_NoMutualExclusion ==
  \A p, q \in Procs :
    (p # q /\ InFlight(q)) =>
      /\ pc[p] = "idle" =>
           \A order \in RowOrders({v \in VariantIds : variants[v].testId = local[q].testId}) :
             ENABLED EvaluateGetTest(p, local[q].testId, order)
      /\ pc[p] = "write" => ENABLED EvaluateWrite(p)

\* C12 witness: both evaluations read the test as 'running', analytics were
\* ingested between their reads, both are in their write phase and each has
\* set out to promote a different variant.
C12_Witness ==
  /\ \A p \in Procs : pc[p] = "write" /\ local[p].test.status = "running"
  /\ \E v \in VariantIds :
       local[1].perf[v].conversions # local[2].perf[v].conversions
  /\ \E a \in PlannedWinners(1), b \in PlannedWinners(2) : a # b

\* C13 (control identity): in every evaluation that has read the test, the
\* variant it treats as control (variantPerformance[0]: exempt from the
\* kill-switch, baseline of the uplift) is the test's first variant by
\* creation order.
C13_ControlIsFirstCreated ==
  \A p \in Procs :
    (InFlight(p) /\ local[p].test # NoTest) =>
      local[p].test.variants[1].id = ControlId(local[p].testId)

\* The conversion rate of variant v on the stored analytics, and the
\* arithmetic mean of the rates of a set of variants.
RateOf(v) ==
  IF analytics[v].views > 0 THEN Frac(analytics[v].conversions * 100, analytics[v].views)
  ELSE Frac(0, 1)

RECURSIVE SumOfRates(_)
SumOfRates(S) ==
  IF S = {} THEN Frac(0, 1)
  ELSE LET v == CHOOSE x \in S : TRUE
       IN FracAdd(RateOf(v), SumOfRates(S \ {v}))

MeanRate(S) == Frac(SumOfRates(S).n, SumOfRates(S).d * Cardinality(S))

\* The variant evaluation p uses as baseline.
BaselineOf(p) == local[p].perf[1].variantId

\* C14 (blended average): an evaluation that has its minimum sample returns
\* at the zero-average guard exactly when the mean rate over all variants
\* active at entry (control and judged variant included, 'disabled' and
\* 'winner' variants excluded) is <= 0.001; and when it goes on to the
\* kill-switch, a variant active at entry other than its baseline is disabled
\* in the pass exactly when its underperformance against that same mean is
\* >= killSwitchThreshold.
C14_BlendedAverage ==
  \A p \in Procs :
    (Done(p) /\ local[p].outcome \in {"avgNegligible", "controlNegligible", "act"}) =>
      LET mean == MeanRate(EntryActive(p))
      IN /\ (local[p].outcome = "avgNegligible") <=> Negligible(mean)
         /\ local[p].outcome = "act" =>
              \A v \in EntryActive(p) \ {BaselineOf(p)} :
                (v \in DisabledInPass(p)) <=>
                  FracGE(underperformancePercent(mean, RateOf(v)),
                         EntryTest(p).killSwitchThreshold)

\* C14 witness: a returned evaluation left a challenger active whose
\* underperformance against the blended mean is below the threshold although
\* against the mean of the other active variants it reaches the threshold;
\* and another variant was already out of the average, being 'disabled'.
C14_Witness ==
  \E p \in Procs :
    /\ Done(p) /\ local[p].outcome = "act"
    /\ EntryVariants(p) # EntryActive(p)
    /\ \E v \in EntryActive(p) \ {BaselineOf(p)} :
         /\ variants[v].variantStatus = "active"
         /\ ~Negligible(MeanRate(EntryActive(p) \ {v}))
         /\ FracGE(underperformancePercent(MeanRate(EntryActive(p) \ {v}), RateOf(v)),
                   EntryTest(p).killSwitchThreshold)

\* The first position of a maximal rate in a sequence of performances.
FirstMaxIndex(active) ==
  CHOOSE i \in DOMAIN active :
    /\ \A j \in DOMAIN active : ~FracGT(conversionRate(active[j]), conversionRate(active[i]))
    /\ \A j \in 1..(i - 1) : FracGT(conversionRate(active[i]), conversionRate(active[j]))

\* Evaluation p got as far as computing bestPerformer (line 126).
ReachedBestPerformer(p) == local[p].outcome \in {"controlNegligible", "act"}

\* C15 (best-performer tie-break): bestPerformer is the first variant, in the
\* order of the variants active at entry, whose rate is the maximum over that
\* set; and when the control (the first variant by creation order) is active
\* and attains the maximum rate, alone or tied, bestPerformer is the control
\* and no winner is promoted in that pass.
C15_BestPerformerTieBreak ==
  \A p \in Procs :
    (Done(p) /\ Found(p)) =>
      LET active  == activeVariants(local[p].perf)
          control == ControlId(local[p].testId)
      IN /\ ReachedBestPerformer(p) =>
              bestPerformer(active) = active[FirstMaxIndex(active)]
         /\ (/\ control \in EntryActive(p)
             /\ \A v \in EntryActive(p) : ~FracGT(RateOf(v), RateOf(control)))
            => /\ PromotedInPass(p) = {}
               /\ ReachedBestPerformer(p) => bestPerformer(active).variantId = control

\* ------------------------------------- calculateStatisticalSignificance claims
Returned == significance.result # <<>>
Result == significance.result[1]
conversions1 == significance.args[1]
views1 == significance.args[2]
conversions2 == significance.args[3]
views2 == significance.args[4]

\* C16: when either group has no views, or the pooled conversion rate is 0 or
\* 1 (no conversions at all, or every view converted), the call returns
\* significant = false, confidence = 0 and pValue = 1, a result without NaN
\* (confidence in tenths of a percent, pValue in ten-thousandths).
C16_DegenerateGuards ==
  (/\ Returned
   /\ \/ views1 = 0
      \/ views2 = 0
      \/ conversions1 + conversions2 = 0
      \/ conversions1 + conversions2 = views1 + views2)
    => /\ Result.significant = FALSE
       /\ Result.confidence = 0
       /\ Result.pValue = 10000

\* Both groups have views and every view converted (pooled rate 1): the
\* standard error is 0 and the guard's result comes back.
C16_Witness ==
  /\ Returned
  /\ views1 > 0 /\ views2 > 0
  /\ conversions1 = views1 /\ conversions2 = views2
  /\ Result = [significant |-> FALSE, confidence |-> 0, pValue |-> 10000]

\* C17: the call with the two groups swapped returns the same pValue and the
\* same significant flag (a NaN pValue on one side is a NaN on the other).
Swapped ==
  calculateStatisticalSignificance(conversions2, views2, conversions1, views1)

C17_Symmetry ==
  Returned => /\ Result.pValue = Swapped.pValue
              /\ Result.significant = Swapped.significant

\* A significant difference between groups of different sizes, the first
\* group converting less than the second.
C17_Witness ==
  /\ Returned
  /\ views1 # views2
  /\ conversions1 * views2 < conversions2 * views1
  /\ Result.significant
  /\ Swapped.significant

\* C18: in every returned result, significant is true exactly when the pValue
\* field of that result is strictly less than 0.05 (500 ten-thousandths).
C18_SignificantIffPValueField ==
  Returned => (Result.significant <=> LessThan(Result.pValue, 500))

\* C18 as the code has it: significant is decided on the p-value before it is
\* rounded to four decimals, so a significant result returns a pValue of at
\* most 0.05, and a returned pValue below 0.05 belongs to a significant result.
C18_SignificantUpToRounding ==
  Returned => /\ Result.significant => (~IsNaN(Result.pValue) /\ Result.pValue <= 500)
              /\ LessThan(Result.pValue, 500) => Result.significant

\* A significant result whose p-value (0.04997 for 0 of 2 against 39 of 58)
\* is returned as 0.05.
C18_Witness ==
  /\ Returned
  /\ Result.significant
  /\ Result.pValue = 500

\* C19: the returned confidence equals clamp((1 - pValue) * 100, 0, 99.9), to
\* within the rounding of the two returned fields (confidence to one decimal,
\* pValue to four), and lies in the closed interval [0, 99.9].  Compared in
\* hundredths of a percent: confidence * 10 against 10000 - pValue.
C19_ConfidenceClamp ==
  Returned =>
    /\ ~IsNaN(Result.confidence)
    /\ ~IsNaN(Result.pValue)
    /\ Result.confidence >= 0
    /\ Result.confidence <= 999
    /\ Abs(Result.confidence * 10 - Min(9990, Max(0, 10000 - Result.pValue))) <= 6

\* C20: whenever the call returns significant = true, the returned confidence
\* is greater than 95 (950 tenths of a percent).
C20_SignificantAbove95 ==
  (Returned /\ Result.significant) => GreaterThan(Result.confidence, 950)

\* C20 as the code has it: a significant result has a returned confidence of
\* at least 95 (a p-value between 0.0495 and 0.05 gives exactly 95.0), and
\* 30 of 1000 against 90 of 1000 is significant with the confidence at its
\* cap of 99.9.
C20_SignificantAtLeast95 ==
  Returned =>
    /\ Result.significant => (~IsNaN(Result.confidence) /\ Result.confidence >= 950)
    /\ significance.args = <<30, 1000, 90, 1000>>
         => (Result.significant /\ Result.confidence = 999)

\* A significant result (0 of 2 against 14 of 20, p-value 0.04975) whose
\* confidence is returned as 95.0.
C20_Witness ==
  /\ Returned
  /\ Result.significant
  /\ Result.confidence = 950

\* ------------------------------------------------ claims about the routes
\* C21: across evaluate, the manual evaluate trigger, automation settings,
\* apply-winner and start, every step leaves the activity log as it was or
\* appends to it: the log before the step is a prefix of the log after it.
C21_AppendOnly ==
  [][/\ Len(activityLog') >= Len(activityLog)
     /\ SubSeq(activityLog', 1, Len(activityLog)) = activityLog]_vars

\* A log with entries of the engine and of the operator's requests.
C21_Witness ==
  /\ Len(activityLog) >= 3
  /\ \E i \in DOMAIN activityLog : activityLog[i].action = "disabled_variant"
  /\ \E i, j \in DOMAIN activityLog :
       i < j /\ activityLog[i].action = "evaluation" /\ activityLog[j].action = "evaluation"
  /\ tests[1].status = "winner_applied"

\* The variants evaluation p goes on to disable: read as active, not the
\* first row, underperforming the average it computed by the threshold.
KillDue(p) ==
  LET perf   == local[p].perf
      active == activeVariants(perf)
  IN IF local[p].outcome # "act" THEN {}
     ELSE {v \in VariantIds :
             \E i \in DOMAIN active :
               /\ active[i].variantId = v
               /\ v # perf[1].variantId
               /\ FracGE(underperformancePercent(avgConversionRate(active),
                                                 conversionRate(active[i])),
                         local[p].test.killSwitchThreshold)}

HasNewEntry(p, variantId, action) ==
  \E i \in DOMAIN NewEntries(p) :
    NewEntries(p)[i].variantId = variantId /\ NewEntries(p)[i].action = action

\* Some auto-win write of evaluation p has been made.
AutoWinStarted(p) ==
  \/ \E v \in VariantIds : /\ variants[v].variantStatus = "winner"
                            /\ entry[p].variants[v].variantStatus # "winner"
  \/ tests[local[p].testId] # EntryTest(p)
  \/ \E v \in VariantIds : HasNewEntry(p, v, "promoted_winner")

\* The rows a step writes: variant rows, test rows and log entries.
RowsWritten ==
  Cardinality({v \in VariantIds : variants'[v] # variants[v]})
  + Cardinality({t \in TestIds : tests'[t] # tests[t]})
  + (Len(activityLog') - Len(activityLog))

\* C22: within one evaluation the storage calls are issued one at a time
\* (a step writes at most one row); a 'disabled_variant' entry is in the log
\* only once its variant's status has been written; once any auto-win write
\* is made, every kill-switch write of the evaluation has been made; and the
\* auto-win writes come in the order variant 'winner', test winner and
\* status, 'promoted_winner' entry.
C22_WritesInOrder ==
  \A p \in Procs :
    (InFlight(p) /\ Found(p)) =>
      /\ \A v \in VariantIds :
           HasNewEntry(p, v, "disabled_variant")
             => /\ variants[v].variantStatus = "disabled"
                /\ entry[p].variants[v].variantStatus = "active"
      /\ AutoWinStarted(p)
           => \A v \in KillDue(p) : /\ variants[v].variantStatus = "disabled"
                                     /\ HasNewEntry(p, v, "disabled_variant")
      /\ tests[local[p].testId] # EntryTest(p)
           => /\ tests[local[p].testId].status = "winner_applied"
              /\ tests[local[p].testId].winnerVariantId \in VariantIds
              /\ variants[tests[local[p].testId].winnerVariantId].variantStatus = "winner"
      /\ \A v \in VariantIds :
           HasNewEntry(p, v, "promoted_winner")
             => /\ tests[local[p].testId].winnerVariantId = v
                /\ tests[local[p].testId] # EntryTest(p)

C22_SequentialWrites ==
  [](C22_WritesInOrder) /\ [][RowsWritten <= 1 /\ Len(activityLog') >= Len(activityLog)]_vars

\* Between two awaits of one evaluation: a variant disabled and logged, the
\* best performer already 'winner', the test row not yet written.
C22_Witness ==
  /\ pc[1] = "write"
  /\ \E v \in KillDue(1) : HasNewEntry(1, v, "disabled_variant")
  /\ \E v \in VariantIds : variants[v].variantStatus = "winner"
  /\ tests[1].status = "running"

\* ------------------------------------------------- claims about getAnalytics
\* The last getAnalytics call: whether one was made, the rows in its window,
\* what it returned, and the returned points of one variant.
WasRead == analyticsTable.now # 0
WindowRows == InWindow(analyticsTable.rows, analyticsTable.now)
ReturnedPoints == analyticsTable.returned
ReturnedOf(v) == {x \in Range(ReturnedPoints) : x.variantId = v}
SameBucket(x, y) ==
  /\ x.variantId = y.variantId
  /\ x.timestamp \div BucketDays = y.timestamp \div BucketDays

\* C23: getAnalytics(testId, '1m') returns rows of the window only, for each
\* variant and time bucket exactly one point and none of that bucket is later,
\* sorted by ascending timestamp; the views and conversions the evaluator
\* uses for a variant are those of the returned point of that variant with
\* the greatest timestamp, and 0 views, 0 conversions and rate 0 for a variant
\* without a point in the window.
C23_LatestSnapshot ==
  WasRead =>
    /\ Range(ReturnedPoints) \subseteq WindowRows
    /\ \A x \in WindowRows :
         \E i \in DOMAIN ReturnedPoints :
           /\ SameBucket(x, ReturnedPoints[i])
           /\ x.timestamp <= ReturnedPoints[i].timestamp
           /\ \A j \in DOMAIN ReturnedPoints : SameBucket(x, ReturnedPoints[j]) => j = i
    /\ \A i, j \in DOMAIN ReturnedPoints :
         i < j => ReturnedPoints[i].timestamp <= ReturnedPoints[j].timestamp
    /\ \A v \in VariantIds :
         IF ReturnedOf(v) = {}
         THEN /\ analytics[v] = [views |-> 0, conversions |-> 0]
              /\ conversionRate(analytics[v]) = Frac(0, 1)
         ELSE \E x \in ReturnedOf(v) :
                /\ \A y \in ReturnedOf(v) : y.timestamp <= x.timestamp
                /\ analytics[v] = [views |-> x.views, conversions |-> x.conversions]

\* A variant with a row before the window and two rows of one bucket with
\* different counters, the later one used; another variant with a point; a
\* variant without any.
C23_Witness ==
  /\ WasRead
  /\ \E i, j, k \in DOMAIN analyticsTable.rows :
       LET x == analyticsTable.rows[i]
           y == analyticsTable.rows[j]
           z == analyticsTable.rows[k]
       IN /\ x \in WindowRows /\ y \in WindowRows /\ z \notin WindowRows
          /\ SameBucket(x, y) /\ x.timestamp < y.timestamp /\ x.views # y.views
          /\ i > j
          /\ analytics[x.variantId] = [views |-> y.views, conversions |-> y.conversions]
  /\ analytics[3] = [views |-> 0, conversions |-> 0]

\* ------------------------------------------- claims about repeated evaluation
ActiveNow(testId) ==
  {v \in VariantIds : variants[v].testId = testId /\ variants[v].variantStatus = "active"}

\* C24: for a test with N variants, non-overlapping evaluate calls change the
\* store at most N - 1 times in all (so from some call onward every call is
\* a no-op): a call that changed anything left fewer active variants than it
\* found or moved the test out of 'running', and a call that finds fewer
\* than two active variants, or the test not running, changes nothing.
C24_FixedPoint ==
  /\ changing <= Cardinality(VariantIds) - 1
  /\ \A p \in Procs :
       (Done(p) /\ Found(p)) =>
         /\ Changed(p) =>
              \/ Cardinality(ActiveNow(local[p].testId)) < Cardinality(EntryActive(p))
              \/ /\ EntryTest(p).status = "running"
                 /\ tests[local[p].testId].status # "running"
         /\ (Cardinality(EntryActive(p)) < 2 \/ EntryTest(p).status # "running")
              => ~Changed(p)

\* N - 1 calls each disabled a variant, and a further call has changed
\* nothing.
C24_Witness ==
  /\ changing = Cardinality(VariantIds) - 1
  /\ Done(1) /\ Found(1) /\ ~Changed(1)
  /\ tests[1].status = "running" /\ tests[1].autonomousOptimization
  /\ prevPass = "acted"

\* The evaluation in flight wrote 'disabled' for the variant it goes on to
\* promote: v is the best performer of the rows it read, and v's
\* underperformance against their average reaches the kill-switch threshold.
BestAlsoKilled(p, v) ==
  LET active == activeVariants(local[p].perf)
      best   == bestPerformer(active)
  IN /\ Len(active) >= 2
     /\ best.variantId = v
     /\ FracGE(underperformancePercent(avgConversionRate(active), conversionRate(best)),
               local[p].test.killSwitchThreshold)

StatusChanges(v) == variants'[v].variantStatus # variants[v].variantStatus

\* C25 as stated (status is monotone under the engine): every step that
\* changes a variant's status changes a variant that was 'active' when the
\* evaluation in flight was called, from 'active' to 'disabled' or to 'winner':
\* never back to 'active', never from 'disabled' to 'winner', never from
\* 'winner' to 'disabled'.
C25_StatusMonotone ==
  [][\A v \in VariantIds : StatusChanges(v) =>
       /\ \E p \in Procs : InFlight(p) /\ v \in EntryActive(p)
       /\ variants'[v].variantStatus \in {"disabled", "winner"}
       /\ variants[v].variantStatus = "active"]_vars

\* C25 amended: every step that changes a variant's status changes a variant
\* that was 'active' when the evaluation in flight was called, to 'disabled'
\* or to 'winner', never to 'active' and never from 'winner'; a 'disabled'
\* variant becomes 'winner' only within the evaluation that disabled it, when
\* it is that evaluation's best performer and its underperformance reaches
\* the kill-switch threshold.
C25_StatusMonotoneWithinCall ==
  [][\A v \in VariantIds : StatusChanges(v) =>
       /\ \E p \in Procs : InFlight(p) /\ v \in EntryActive(p)
       /\ variants'[v].variantStatus \in {"disabled", "winner"}
       /\ variants[v].variantStatus # "winner"
       /\ variants[v].variantStatus = "disabled" =>
            /\ variants'[v].variantStatus = "winner"
            /\ \E p \in Procs : /\ InFlight(p) /\ v \in EntryActive(p)
                                /\ BestAlsoKilled(p, v)]_vars

\* One evaluation disabled two variants and then made one of them the
\* winner; an earlier evaluation had changed nothing.
C25_Witness ==
  \E p \in Procs : \E v, w \in VariantIds :
    /\ Done(p) /\ Found(p) /\ v # w
    /\ {v, w} \subseteq EntryActive(p)
    /\ variants[v].variantStatus = "winner"
    /\ variants[w].variantStatus = "disabled"
    /\ \E i, j \in DOMAIN NewEntries(p) :
         /\ i < j
         /\ NewEntries(p)[i] = [testId |-> 1, variantId |-> v, action |-> "disabled_variant"]
         /\ NewEntries(p)[j] = [testId |-> 1, variantId |-> v, action |-> "promoted_winner"]
    /\ BestAlsoKilled(p, v)
    /\ tests[1].killSwitchThreshold < 0

\* The test row says that v is its applied winner.
AppliedWinner(testId, v) ==
  tests[testId].status = "winner_applied" /\ tests[testId].winnerVariantId = v

\* The evaluation in flight has written 'winner' for v and its next storage
\* call is updateTestWinner for v (between routes.ts 179 and 180).
BetweenWinnerWrites(p, v) ==
  /\ pc[p] = "write"
  /\ Head(local[p].writes) = Write("updateTestWinner", v, "winner_applied")

\* C26 (winner consistency): whenever no evaluation is in flight, a variant
\* has variantStatus 'winner' if and only if the test's winnerVariantId is
\* that variant and the test's status is 'winner_applied'.  While an
\* evaluation is in flight the test row never names a variant that is not
\* 'winner', and a 'winner' the test row does not name yet is the one the
\* evaluation is about to record with updateTestWinner.
C26_WinnerConsistency ==
  \A v \in VariantIds :
    /\ Idle => (variants[v].variantStatus = "winner" <=> AppliedWinner(1, v))
    /\ AppliedWinner(1, v) => variants[v].variantStatus = "winner"
    /\ (variants[v].variantStatus = "winner" /\ ~AppliedWinner(1, v)) =>
          \E p \in Procs : BetweenWinnerWrites(p, v)

\* An evaluation promoted a winner and has returned: the variant is 'winner',
\* the test row names it, and the other variants are not winners.
C26_Witness ==
  /\ Idle
  /\ prevPass = "acted"
  /\ \E v \in VariantIds :
       /\ variants[v].variantStatus = "winner"
       /\ AppliedWinner(1, v)
       /\ \A w \in VariantIds \ {v} : variants[w].variantStatus # "winner"
       /\ \E i \in DOMAIN activityLog :
            activityLog[i] = [testId |-> 1, variantId |-> v, action |-> "promoted_winner"]

Winners(testId) ==
  {v \in VariantIds : variants[v].testId = testId /\ variants[v].variantStatus = "winner"}

\* C27 (at most one winner): in every state reached by non-overlapping
\* evaluate, start and apply-winner operations, at most one variant of the
\* test has variantStatus 'winner'.
C27_AtMostOneWinner == Cardinality(Winners(1)) <= 1

\* The storage calls evaluation p has issued or is still to issue include
\* the write of `status` for variant v.  Right after its reads local[p].writes
\* holds all of them; for the calls already made, the status write of a
\* kill-switch is followed by its 'disabled_variant' entry.
PlansStatus(p, v, status) ==
  \E i \in DOMAIN local[p].writes :
    local[p].writes[i] = Write("updateVariantStatus", v, status)
WroteDisabled(p, v) ==
  \E i \in DOMAIN NewEntries(p) :
    NewEntries(p)[i] = [testId |-> local[p].testId, variantId |-> v,
                        action |-> "disabled_variant"]

\* C28 (the winner is never also disabled in the same pass): for a test with
\* killSwitchThreshold > 0 no evaluation issues both a 'disabled' and a
\* 'winner' status write for the same variant, and the best performer of the
\* active rows it read has a rate of at least their average, hence an
\* underperformance of at most zero.
C28_WinnerNotAlsoDisabled ==
  \A p \in Procs :
    (InFlight(p) /\ Found(p) /\ EntryTest(p).killSwitchThreshold > 0) =>
      /\ \A v \in VariantIds :
           /\ ~(PlansStatus(p, v, "disabled") /\ PlansStatus(p, v, "winner"))
           /\ ~(WroteDisabled(p, v) /\ PlansStatus(p, v, "winner"))
           /\ ~(WroteDisabled(p, v) /\ variants[v].variantStatus = "winner")
      /\ local[p].outcome = "act" =>
           LET active == activeVariants(local[p].perf)
               avg    == avgConversionRate(active)
               best   == conversionRate(bestPerformer(active))
           IN /\ ~FracGT(avg, best)
              /\ underperformancePercent(avg, best).n <= 0

\* With a threshold above zero one evaluation disabled one variant and
\* promoted another; the promoted one was not written 'disabled'.
C28_Witness ==
  \E p \in Procs : \E v, w \in VariantIds :
    /\ Done(p) /\ Found(p) /\ EntryTest(p).killSwitchThreshold > 0
    /\ v # w
    /\ WroteDisabled(p, w) /\ variants[w].variantStatus = "disabled"
    /\ ~WroteDisabled(p, v) /\ variants[v].variantStatus = "winner"
    /\ entry[p].variants[v].variantStatus = "active"
    /\ AppliedWinner(local[p].testId, v)

\* C29 (the winner reference stays valid under overlap): whenever no
\* evaluation is in flight and the test is 'winner_applied' with
\* winnerVariantId = v, variant v has variantStatus 'winner'.
C29_WinnerReferenceValid ==
  \A v \in VariantIds : (Idle /\ AppliedWinner(1, v)) => variants[v].variantStatus = "winner"

\* The manual trigger handled by p has been answered.
EvaluateAnswered(p) == http[p].state = "answered" /\ http[p].route = "evaluate"
\* The store is as it was when the request arrived.
StoreUntouched(p) ==
  http[p].before = [tests |-> tests, variants |-> variants, activityLog |-> activityLog]
\* The activity-log entries appended since the request arrived.
AppendedSince(p) ==
  SubSeq(activityLog, Len(http[p].before.activityLog) + 1, Len(activityLog))
EvaluationEntries(s) == {i \in DOMAIN s : s[i].action = "evaluation"}
ManualEntry(p) == [testId |-> http[p].testId, variantId |-> 0, action |-> "evaluation"]

\* C30 (manual evaluate trigger): an answered POST /api/tests/:id/evaluate
\* answered 404 exactly when the test does not exist and 400 exactly when it
\* exists and was not 'running', in both cases with the store untouched;
\* otherwise the evaluation ran, and an 'evaluation' entry was appended only
\* if it returned: then at most one, with no variant, as the last entry after
\* the evaluation's own 'disabled_variant' and 'promoted_winner' entries, and
\* exactly one when the answer is 200; if the evaluation failed the answer is
\* 500 and no 'evaluation' entry was appended.
C30_ManualEvaluate ==
  \A p \in Procs : EvaluateAnswered(p) =>
    LET new    == AppendedSince(p)
        exists == http[p].testId \in DOMAIN tests
    IN /\ http[p].response \in {200, 400, 404, 500}
       /\ http[p].response = 404 <=> ~exists
       /\ http[p].response = 400 <=>
            (exists /\ http[p].before.tests[http[p].testId].status # "running")
       /\ http[p].response \in {400, 404} =>
            StoreUntouched(p) /\ http[p].evaluation = "none"
       /\ http[p].response \in {200, 500} => http[p].evaluation \in {"returned", "threw"}
       /\ http[p].evaluation = "threw" =>
            http[p].response = 500 /\ EvaluationEntries(new) = {}
       /\ http[p].evaluation = "returned" =>
            /\ Cardinality(EvaluationEntries(new)) <= 1
            /\ EvaluationEntries(new) \subseteq {Len(new)}
            /\ \A i \in EvaluationEntries(new) : new[i] = ManualEntry(p)
       /\ http[p].response = 200 =>
            /\ http[p].evaluation = "returned"
            /\ EvaluationEntries(new) = {Len(new)}
            /\ \A i \in 1..(Len(new) - 1) :
                 new[i].action \in {"disabled_variant", "promoted_winner"}

\* A manual trigger was answered 200 after its evaluation disabled a variant
\* and promoted a winner: three entries were appended, 'evaluation' last.
C30_Witness ==
  \E p \in Procs :
    /\ EvaluateAnswered(p) /\ http[p].response = 200
    /\ http[p].evaluation = "returned"
    /\ Len(AppendedSince(p)) = 3
    /\ AppendedSince(p)[1].action = "disabled_variant"
    /\ AppendedSince(p)[2].action = "promoted_winner"
    /\ AppendedSince(p)[3] = ManualEntry(p)
    /\ tests[1].status = "winner_applied"
====
